---- MODULE Spec2Model ----
(***************************************************************************)
(* Model of kleczynski/solanaTokenHolders.                                 *)
(*                                                                         *)
(*   src/src/script.ts    RateLimiter, getTokenHolders (rate limited,      *)
(*                        429 retry), findHoldersWithMinTokens             *)
(*   src/unnamed/part_000 getTokenHolders (direct fetch),                  *)
(*                        findCommonHolders                                *)
(*                                                                         *)
(* One step of the model is one run-to-completion job of the JavaScript    *)
(* event loop: a call from the outside, a timer callback, or the chain of  *)
(* promise reactions that follows the settling of an awaited promise.      *)
(* Time is kept as ages (milliseconds elapsed since an event), advanced    *)
(* by Tick; an age that has reached WindowMs is kept at WindowMs, because  *)
(* the code only ever compares "now - lastRequestTime" with 1000.          *)
(***************************************************************************)
EXTENDS Integers, Sequences, FiniteSets, TLC

\* ---------------------------------------------------------------- bounds
\* Milliseconds added to the clock by one Tick.
Quantum == 125
\* Callers of addToQueue; each has at most one promise outstanding.
MaxTasks == 2
\* Concurrent invocations of processQueue the model can hold.
MaxChains == 2

\* ------------------------------------------------------ program constants
MAX_REQUESTS_PER_SECOND == 8
WindowMs == 1000
MIN_TIME_BETWEEN_REQUESTS == WindowMs \div MAX_REQUESTS_PER_SECOND

TaskIds == 1..MaxTasks
ChainIds == 1..MaxChains

Min(a, b) == IF a < b THEN a ELSE b
Max(a, b) == IF a > b THEN a ELSE b

VARIABLES
    queue,                  \* RateLimiter.queue: callers whose wrapper waits
    processing,             \* RateLimiter.processing
    requestsInLastSecond,   \* RateLimiter.requestsInLastSecond
    sinceLastRequest,       \* Date.now() - RateLimiter.lastRequestTime, <= WindowMs
    chain,                  \* the invocations of processQueue: where each is suspended
    status,                 \* per caller: what its task is doing
    promise,                \* per caller: the promise addToQueue returned
    result,                 \* per caller: how the task itself ended
    submitSeq,              \* history: submitted tasks not yet started, oldest first
    lastStep,               \* history: the operation that made this state
    dispatchAges            \* history: ages of the dispatches of the last WindowMs

limiterVars == <<queue, processing, requestsInLastSecond, sinceLastRequest, chain,
                 status, promise, result, submitSeq>>

\* ------------------------------------------------------------ RateLimiter
Step(op, t) == [op |-> op, task |-> t]

ChainDone == [pc |-> "done", timer |-> 0, nowAge |-> 0, task |-> 0]

\* queue.push / queue.shift
QueuePushFront(q, t) == <<t>> \o q      \* faulty variant: unshift instead of push
QueuePush(q, t) == Append(q, t)
QueueFront(q) == Head(q)
QueueShift(q) == Tail(q)

\* line 70: addToQueue starts the loop only when none is running
MustStartLoopAlways(p) == TRUE      \* faulty variant: the flag is not consulted
MustStartLoopNever(p) == FALSE      \* faulty variant: the loop is never woken
MustStartLoop(p) == ~p

\* line 86-88: the ceiling is reached and the second is not over
TimeToWait(elapsed) == WindowMs - elapsed
MustWaitNever(count, elapsed) == FALSE  \* faulty variant: the ceiling is not enforced
MustWait(count, elapsed) ==
    count >= MAX_REQUESTS_PER_SECOND /\ TimeToWait(elapsed) > 0

\* line 95: a second has passed since the last request
CounterAfterIdle(count, elapsed) == IF elapsed >= WindowMs THEN 0 ELSE count

\* The wrapper addToQueue queues (lines 61-68): the task's failure is caught
\* and handed to reject, so the wrapper's own promise always fulfils.
WrapperNoCatch(outcome) ==              \* faulty variant: the wrapper has no try/catch
    IF outcome = "ok" THEN [promise |-> "resolved", wrapper |-> "fulfilled"]
    ELSE [promise |-> "pending", wrapper |-> "rejected"]
WrapperSettles(outcome) == [promise |-> IF outcome = "ok" THEN "resolved" ELSE "rejected",
                            wrapper |-> "fulfilled"]

RemoveTask(s, t) == SelectSeq(s, LAMBDA x: x # t)

\* lines 99-104: shift the head, count it, stamp the time and call it. The
\* call runs the wrapper and, inside it, the task, up to the task's first
\* await: the task has started when this returns. (processing is left to
\* the caller of Dispatch.)
Dispatch(c, q, count, st, sub) ==
    IF Len(q) = 0
    THEN \* `if (task)` fails: the invocation returns
         /\ queue' = q
         /\ requestsInLastSecond' = count
         /\ chain' = [chain EXCEPT ![c] = ChainDone]
         /\ status' = st
         /\ submitSeq' = sub
         /\ UNCHANGED sinceLastRequest
    ELSE LET t == QueueFront(q) IN
         /\ queue' = QueueShift(q)
         /\ requestsInLastSecond' = count + 1
         /\ sinceLastRequest' = 0
         /\ status' = [st EXCEPT ![t] = "running"]
         /\ submitSeq' = RemoveTask(sub, t)
         /\ chain' = [chain EXCEPT ![c] = [pc |-> "awaitTask", timer |-> 0,
                                           nowAge |-> 0, task |-> t]]

\* processQueue from its first line to its first await (lines 77-104), run
\* by invocation c on the queue q.
ProcessQueue(c, q, st, sub) ==
    IF Len(q) = 0
    THEN /\ processing' = FALSE
         /\ chain' = [chain EXCEPT ![c] = ChainDone]
         /\ queue' = q
         /\ status' = st
         /\ submitSeq' = sub
         /\ UNCHANGED <<requestsInLastSecond, sinceLastRequest>>
    ELSE /\ processing' = TRUE
         /\ IF MustWait(requestsInLastSecond, sinceLastRequest)
            THEN /\ chain' = [chain EXCEPT ![c] =
                        [pc |-> "ceilingWait", timer |-> TimeToWait(sinceLastRequest),
                         nowAge |-> 0, task |-> 0]]
                 /\ queue' = q
                 /\ status' = st
                 /\ submitSeq' = sub
                 /\ UNCHANGED <<requestsInLastSecond, sinceLastRequest>>
            ELSE Dispatch(c, q, CounterAfterIdle(requestsInLastSecond, sinceLastRequest),
                          st, sub)

FreeChains == {c \in ChainIds : chain[c].pc = "done"}
LowestFree == CHOOSE c \in FreeChains : \A d \in FreeChains : c <= d

\* addToQueue(task) by caller t (lines 59-74).
AddToQueue(t) ==
    /\ promise[t] # "pending"
    /\ promise' = [promise EXCEPT ![t] = "pending"]
    /\ result' = [result EXCEPT ![t] = "none"]
    /\ LET q == QueuePush(queue, t)
           st == [status EXCEPT ![t] = "queued"]
           sub == Append(submitSeq, t)
       IN IF MustStartLoop(processing)
          THEN /\ FreeChains # {}
               /\ ProcessQueue(LowestFree, q, st, sub)
          ELSE /\ queue' = q
               /\ status' = st
               /\ submitSeq' = sub
               /\ UNCHANGED <<processing, requestsInLastSecond, sinceLastRequest, chain>>

\* The timer of line 89 fires: lines 90-104. `now` is still the value read
\* before the wait, nowAge milliseconds ago.
CeilingWake(c) ==
    /\ chain[c].pc = "ceilingWait"
    /\ chain[c].timer = 0
    /\ Dispatch(c, queue, CounterAfterIdle(0, sinceLastRequest - chain[c].nowAge),
                status, submitSeq)
    /\ UNCHANGED <<processing, promise, result>>

\* The task of caller t ends with `outcome`; the wrapper settles the caller's
\* promise, and the invocation that awaits the wrapper goes on to line 107.
TaskSettle(t, outcome) ==
    /\ status[t] = "running"
    /\ status' = [status EXCEPT ![t] = "settled"]
    /\ result' = [result EXCEPT ![t] = outcome]
    /\ promise' = [promise EXCEPT ![t] = WrapperSettles(outcome).promise]
    /\ chain' = [c \in ChainIds |->
                   IF chain[c].pc = "awaitTask" /\ chain[c].task = t
                   THEN IF WrapperSettles(outcome).wrapper = "fulfilled"
                        THEN [pc |-> "spacing", timer |-> MIN_TIME_BETWEEN_REQUESTS,
                              nowAge |-> 0, task |-> 0]
                        ELSE ChainDone   \* processQueue itself rejects: nobody resumes it
                   ELSE chain[c]]
    /\ UNCHANGED <<queue, processing, requestsInLastSecond, sinceLastRequest, submitSeq>>

\* The timer of line 107 fires: line 110 calls processQueue again.
SpacingExpire(c) ==
    /\ chain[c].pc = "spacing"
    /\ chain[c].timer = 0
    /\ ProcessQueue(c, queue, status, submitSeq)
    /\ UNCHANGED <<promise, result>>

\* Quantum milliseconds pass. A timer that has run out stays at 0 until the
\* event loop runs its callback, which may be late.
AgeBy(a, ms) == Min(a + ms, WindowMs)
RECURSIVE AgeAll(_, _)
AgeAll(s, ms) ==
    IF s = <<>> THEN <<>>
    ELSE IF Head(s) + ms > WindowMs THEN AgeAll(Tail(s), ms)
         ELSE <<Head(s) + ms>> \o AgeAll(Tail(s), ms)

Elapse(ms) ==
    /\ sinceLastRequest' = AgeBy(sinceLastRequest, ms)
    /\ chain' = [c \in ChainIds |->
                   IF chain[c].pc \in {"ceilingWait", "spacing"}
                   THEN [chain[c] EXCEPT !.timer = Max(@ - ms, 0),
                                         !.nowAge = IF chain[c].pc = "ceilingWait"
                                                    THEN AgeBy(@, ms) ELSE 0]
                   ELSE chain[c]]
    /\ UNCHANGED <<queue, processing, requestsInLastSecond, status, promise, result,
                   submitSeq>>

Tick == Elapse(Quantum)

LimiterInit ==
    /\ queue = <<>>
    /\ processing = FALSE
    /\ requestsInLastSecond = 0
    /\ sinceLastRequest = WindowMs      \* lastRequestTime = 0, the epoch
    /\ chain = [c \in ChainIds |-> ChainDone]
    /\ status = [t \in TaskIds |-> "idle"]
    /\ promise = [t \in TaskIds |-> "none"]
    /\ result = [t \in TaskIds |-> "none"]
    /\ submitSeq = <<>>

\* A task starts in this step: the wrapper, and the task in it, are called.
Started(t) == status[t] # "running" /\ status'[t] = "running"

\* The history of dispatch times, kept beside the limiter's step: the ages
\* grow with the clock, an age beyond the window is forgotten, and a step
\* that starts a task records a dispatch of age 0.
RecordDispatches ==
    dispatchAges' =
        LET aged == IF lastStep'.op = "tick" THEN AgeAll(dispatchAges, Quantum)
                    ELSE dispatchAges
        IN IF \E t \in TaskIds : Started(t) THEN Append(aged, 0) ELSE aged

\* CeilingWake or SpacingExpire: the callback of the one timer a suspended
\* invocation of processQueue holds.
LimiterTimer(c) ==
    IF chain[c].pc = "ceilingWait" THEN CeilingWake(c)
    ELSE IF chain[c].pc = "spacing" THEN SpacingExpire(c)
    ELSE FALSE

\* ------------------------------------------- Holder Fetcher and Aggregation
\* bounds of the inputs and of the data the external API serves
MaxTokens == 2
\* Non-empty pages the API serves in one run, over all tokens.
MaxServed == 2
MaxRecs == 2
MaxAmount == 1
\* Milliseconds added to the clock by one tick of a run.
AggQuantum == 1000

\* program constants
CooldownMs == 1000
TokenPauseMs == 100

Mints == {"A", "B"}
Owners == {"x", "y"}
PriceUsd == [m \in Mints |-> IF m = "A" THEN 1 ELSE 2]

\* TokenInfo, and the token lists a run may be given
TokenInfo(m) == [address |-> m, priceUsd |-> PriceUsd[m]]
TokenLists == UNION {[1..n -> Mints] : n \in 0..MaxTokens}

\* TokenAccount (owner and amount are the fields the code reads)
Accounts == [owner : Owners, amount : 0..MaxAmount]
PageSet == UNION {[1..n -> Accounts] : n \in 1..MaxRecs}
\* the body of a successful response: `result` may be absent
Bodies == {[result |-> FALSE, token_accounts |-> <<>>],
           [result |-> TRUE, token_accounts |-> <<>>]}
          \cup {[result |-> TRUE, token_accounts |-> p] : p \in PageSet}
\* response.ok, status 429, another non-success status, or fetch rejecting
ResponseKinds == {"ok", "429", "fatal", "reject"}

VARIABLES
    prog,                   \* which program runs: "script", "common" or "none"
    tokens,                 \* the token list the run is given
    minTokensRequired,      \* script.ts: the threshold
    main,                   \* findHoldersWithMinTokens / findCommonHolders: position
    fetcher,                \* the calls of getTokenHolders, one per place in the list
    holderDetails,          \* Map token address -> holder list
    holderCounts,           \* script.ts: Map address -> HolderSummary, insertion order
    output,                 \* qualifiedHolders / commonHolders once returned
    served,                 \* history: the non-empty pages served so far
    aggStep                 \* history: the last step of the run

aggVars == <<prog, tokens, minTokensRequired, main, fetcher, holderDetails,
             holderCounts, output, served, aggStep>>

vars == <<limiterVars, lastStep, dispatchAges, aggVars>>

\* The one caller of addToQueue in script.ts is the page loop.
Caller == 1
TokenIdx == 1..MaxTokens
NoFed == [o \in Owners |-> 0]
AStep(op, i, kind) == [op |-> op, i |-> i, kind |-> kind]

\* --- a Map<string, ...> as the sequence of its entries in insertion order
IndexOf(h, k) ==
    IF \E i \in 1..Len(h) : h[i].address = k
    THEN CHOOSE i \in 1..Len(h) : h[i].address = k
    ELSE 0
MapHas(h, k) == IndexOf(h, k) # 0
MapSet(h, k, v) == IF MapHas(h, k) THEN [h EXCEPT ![IndexOf(h, k)] = v] ELSE Append(h, v)
\* currentHolder?.amount || 0
AmountOr0(h, k) == IF MapHas(h, k) THEN h[IndexOf(h, k)].amount ELSE 0
\* a Map whose iteration order the code does not use, as a function
SetKey(f, k, v) == [x \in (DOMAIN f) \cup {k} |-> IF x = k THEN v ELSE f[x]]
EmptyMap == [x \in {} |-> 0]

\* script.ts lines 260-266: one account added to the holder map
AccumulateOverwrite(h, account, priceUsd) ==
    MapSet(h, account.owner,
           [address |-> account.owner, amount |-> account.amount,
            valueUsd |-> account.amount * priceUsd])
Accumulate(h, account, priceUsd) ==
    LET newAmount == AmountOr0(h, account.owner) + account.amount
    IN MapSet(h, account.owner,
              [address |-> account.owner, amount |-> newAmount,
               valueUsd |-> newAmount * priceUsd])

\* part_000 lines 54-55: the same on a Map<string, number>
AccumulateCommon(h, account) ==
    LET currentAmount == AmountOr0(h, account.owner)
    IN MapSet(h, account.owner,
              [address |-> account.owner, amount |-> currentAmount + account.amount])

\* token_accounts.forEach(...)
RECURSIVE AccumulatePage(_, _, _, _)
AccumulatePage(p, h, accounts, priceUsd) ==
    IF accounts = <<>> THEN h
    ELSE AccumulatePage(p,
                        IF p = "script" THEN Accumulate(h, Head(accounts), priceUsd)
                        ELSE AccumulateCommon(h, Head(accounts)),
                        Tail(accounts), priceUsd)

\* Array.prototype.sort((a, b) => b.amount - a.amount): stable, descending
RECURSIVE InsertByAmount(_, _)
InsertByAmount(sorted, e) ==
    IF sorted = <<>> THEN <<e>>
    ELSE IF Head(sorted).amount >= e.amount
         THEN <<Head(sorted)>> \o InsertByAmount(Tail(sorted), e)
         ELSE <<e>> \o sorted
RECURSIVE SortByAmount(_)
SortByAmount(h) ==
    IF h = <<>> THEN <<>>
    ELSE InsertByAmount(SortByAmount(SubSeq(h, 1, Len(h) - 1)), h[Len(h)])

\* Array.prototype.sort((a, b) => b.totalValueUsd - a.totalValueUsd)
RECURSIVE InsertByValue(_, _)
InsertByValue(sorted, e) ==
    IF sorted = <<>> THEN <<e>>
    ELSE IF Head(sorted).totalValueUsd >= e.totalValueUsd
         THEN <<Head(sorted)>> \o InsertByValue(Tail(sorted), e)
         ELSE <<e>> \o sorted
RECURSIVE SortByValue(_)
SortByValue(h) ==
    IF h = <<>> THEN <<>>
    ELSE InsertByValue(SortByValue(SubSeq(h, 1, Len(h) - 1)), h[Len(h)])

\* lines 255 / 48: the page that ends the loop
IsLastPageAbsentOnly(body) == ~body.result
IsLastPage(body) == ~body.result \/ Len(body.token_accounts) = 0

\* What getTokenHolders does with a response: read its body, wait and ask
\* for the same page again, or throw.
\* script.ts lines 244-251
AfterResponseNoRetry(kind) == IF kind = "ok" THEN "json" ELSE "throw"
AfterResponseUnchecked(kind) == IF kind = "429" THEN "retry" ELSE "json"
AfterResponse(kind) ==
    IF kind = "ok" THEN "json"
    ELSE IF kind = "429" THEN "retry"
    ELSE "throw"
\* part_000 lines 42-44
AfterResponseCommon(kind) == IF kind = "ok" THEN "json" ELSE "throw"

\* script.ts line 292
ConfigErrorOffByOne(minRequired, n) == minRequired > n + 1
ConfigError(minRequired, n) == minRequired > n

\* script.ts lines 303-317: one holder of one token merged into holderCounts
MergeHolder(counts, holder, mint) ==
    LET base == IF MapHas(counts, holder.address) THEN counts
                ELSE Append(counts, [address |-> holder.address, tokenCount |-> 0,
                                     holdings |-> EmptyMap, totalValueUsd |-> 0])
        i == IndexOf(base, holder.address)
    IN [base EXCEPT ![i] = [@ EXCEPT !.tokenCount = @ + 1,
                                     !.holdings = SetKey(@, mint, holder),
                                     !.totalValueUsd = @ + holder.valueUsd]]
RECURSIVE MergeToken(_, _, _)
MergeToken(counts, holders, mint) ==
    IF holders = <<>> THEN counts
    ELSE MergeToken(MergeHolder(counts, Head(holders), mint), Tail(holders), mint)

\* script.ts lines 322-324
QualifiedHolders(counts, minRequired) ==
    SortByValue(SelectSeq(counts, LAMBDA summary : summary.tokenCount >= minRequired))

\* part_000 lines 90, 95-100: the first token's addresses, filtered by each
\* later token's address set
AddressSet(list) == {list[i].address : i \in 1..Len(list)}
AddressList(list) == [i \in 1..Len(list) |-> list[i].address]
\* lines 87-92: holdersArrays, each Set in its insertion order
HoldersArrays(f) == [i \in 1..Len(tokens) |-> AddressList(f[i].ret)]
Has(set, holder) == \E k \in 1..Len(set) : set[k] = holder
FilterCommonSeedOnly(common, holdersArrays, i) == common
RECURSIVE FilterCommon(_, _, _)
FilterCommon(common, holdersArrays, i) ==
    IF i > Len(holdersArrays) THEN common
    ELSE FilterCommon(SelectSeq(common, LAMBDA holder : Has(holdersArrays[i], holder)),
                      holdersArrays, i + 1)
\* line 95: holdersArrays[0] of an empty array is undefined, and spreading
\* it throws a TypeError
SeedUndefined(holdersArrays) == Len(holdersArrays) = 0
CommonHoldersOf(holdersArrays) == FilterCommon(holdersArrays[1], holdersArrays, 2)
CommonHolders(f) == CommonHoldersOf(HoldersArrays(f))

\* --- getTokenHolders
\* pc, page, holders, timer and ret are the call's state; reqPage (the page
\* of the last request), lastKind (the last response), got, seen and fed (the
\* non-empty pages read, the owners and the amounts in them) and ended (the
\* page that ends the data was read) are history.
NoFetcher == [pc |-> "notStarted", page |-> 0, holders |-> <<>>, timer |-> 0,
              ret |-> <<>>, reqPage |-> 0, lastKind |-> "none", got |-> 0,
              seen |-> {}, fed |-> NoFed, ended |-> FALSE]
\* lines 217-218 and the first request of the loop
FirstRequest == [NoFetcher EXCEPT !.pc = "waiting", !.page = 1, !.reqPage = 1]
\* the loop asks for the page its counter names
Request(f) == [f EXCEPT !.pc = "waiting", !.reqPage = f.page]
\* history: a response of this kind has arrived
Heard(f, kind) == [f EXCEPT !.lastKind = kind]
\* history: the amounts the API has served, per owner
RECURSIVE Feed(_, _)
Feed(fed, accounts) ==
    IF accounts = <<>> THEN fed
    ELSE Feed([fed EXCEPT ![Head(accounts).owner] = @ + Head(accounts).amount],
              Tail(accounts))
\* lines 259-269: a page of accounts is accumulated and the counter advances
TakePage(p, f, body, priceUsd) ==
    [f EXCEPT !.holders = AccumulatePage(p, f.holders, body.token_accounts, priceUsd),
              !.page = f.page + 1]
\* history: a body has been read; it ends the data, or it is one more page
EndOfData(body) == ~body.result \/ body.token_accounts = <<>>
Read(f, body) ==
    IF EndOfData(body) THEN [f EXCEPT !.ended = TRUE]
    ELSE [f EXCEPT !.got = @ + 1,
                   !.seen = @ \cup {body.token_accounts[k].owner :
                                        k \in 1..Len(body.token_accounts)},
                   !.fed = Feed(@, body.token_accounts)]
\* lines 256, 272-273: the loop ends and the sorted list is returned
Return(f) == [f EXCEPT !.pc = "returned", !.ret = SortByAmount(f.holders)]
\* lines 250, 275-278: the call throws
Throw(f) == [f EXCEPT !.pc = "failed"]

MainIdle == [pc |-> "idle", idx |-> 0, timer |-> 0, error |-> "none"]
LimiterUnchanged == UNCHANGED limiterVars

\* ------------------------- script.ts: findHoldersWithMinTokens(tokens, min)
\* The run fails: lines 330-333 rethrow, nothing is returned.
OnFetchErrorSwallowed(m, kind) == [m EXCEPT !.pc = "pause", !.timer = TokenPauseMs]
OnFetchError(m, kind) == [m EXCEPT !.pc = "threw", !.error = kind]

\* lines 289-300: the call, up to the first request of the first token
ScriptMain ==
    /\ prog = "script"
    /\ main.pc = "idle"
    /\ aggStep' = AStep("main", 0, "none")
    /\ UNCHANGED <<prog, tokens, minTokensRequired, holderDetails, holderCounts, served>>
    /\ IF ConfigError(minTokensRequired, Len(tokens))
       THEN /\ main' = [main EXCEPT !.pc = "threw", !.error = "config"]
            /\ UNCHANGED <<fetcher, output>>
            /\ LimiterUnchanged
       ELSE IF Len(tokens) = 0
       THEN /\ main' = [main EXCEPT !.pc = "returned"]
            /\ output' = QualifiedHolders(holderCounts, minTokensRequired)
            /\ UNCHANGED fetcher
            /\ LimiterUnchanged
       ELSE /\ main' = [main EXCEPT !.pc = "fetching", !.idx = 1]
            /\ fetcher' = [fetcher EXCEPT ![1] = FirstRequest]
            /\ UNCHANGED output
            /\ AddToQueue(Caller)

\* The response to the page request arrives (the queued task ends), lines
\* 244-253.
ScriptResponse(kind) ==
    /\ prog = "script"
    /\ main.pc = "fetching"
    /\ fetcher[main.idx].pc = "waiting"
    /\ TaskSettle(Caller, IF kind = "reject" THEN "err" ELSE "ok")
    /\ aggStep' = AStep("response", main.idx, kind)
    /\ UNCHANGED <<prog, tokens, minTokensRequired, holderDetails, holderCounts, output,
                   served>>
    /\ LET i == main.idx
           todo == AfterResponse(kind)
           heard == Heard(fetcher[i], kind)
       IN IF todo = "json"
          THEN /\ fetcher' = [fetcher EXCEPT ![i] = [heard EXCEPT !.pc = "json"]]
               /\ UNCHANGED main
          ELSE IF todo = "retry"
          THEN /\ fetcher' = [fetcher EXCEPT ![i] = [heard EXCEPT !.pc = "cooldown",
                                                                  !.timer = CooldownMs]]
               /\ UNCHANGED main
          ELSE /\ fetcher' = [fetcher EXCEPT ![i] = Throw(heard)]
               /\ main' = OnFetchError(main, kind)

\* The cooldown of line 247 is over: `continue`, the same page is asked for.
ScriptCooldownExpire ==
    /\ prog = "script"
    /\ main.pc = "fetching"
    /\ fetcher[main.idx].pc = "cooldown"
    /\ fetcher[main.idx].timer = 0
    /\ aggStep' = AStep("retry", main.idx, "none")
    /\ fetcher' = [fetcher EXCEPT ![main.idx] = Request(@)]
    /\ UNCHANGED <<prog, tokens, minTokensRequired, main, holderDetails, holderCounts,
                   output, served>>
    /\ AddToQueue(Caller)

\* response.json() is read, lines 253-273; when the loop ends, lines 300-319
\* of the caller follow.
ScriptJson(body) ==
    /\ prog = "script"
    /\ main.pc = "fetching"
    /\ fetcher[main.idx].pc = "json"
    /\ UNCHANGED <<prog, tokens, minTokensRequired, output>>
    /\ LET i == main.idx
           token == TokenInfo(tokens[i])
           read == Read(fetcher[i], body)
       IN IF IsLastPage(body)
          THEN LET done == Return(read) IN
               /\ aggStep' = AStep("json", i, "last")
               /\ fetcher' = [fetcher EXCEPT ![i] = done]
               /\ holderDetails' = SetKey(holderDetails, token.address, done.ret)
               /\ holderCounts' = MergeToken(holderCounts, done.ret, token.address)
               /\ main' = [main EXCEPT !.pc = "pause", !.timer = TokenPauseMs]
               /\ UNCHANGED served
               /\ LimiterUnchanged
          ELSE /\ served < MaxServed
               /\ served' = served + 1
               /\ aggStep' = AStep("json", i, "page")
               /\ fetcher' = [fetcher EXCEPT ![i] =
                                Request(TakePage("script", read, body, token.priceUsd))]
               /\ UNCHANGED <<main, holderDetails, holderCounts>>
               /\ AddToQueue(Caller)

\* The pause of line 319 is over: the next token, or lines 322-329.
ScriptPauseExpire ==
    /\ prog = "script"
    /\ main.pc = "pause"
    /\ main.timer = 0
    /\ aggStep' = AStep("next", main.idx + 1, "none")
    /\ UNCHANGED <<prog, tokens, minTokensRequired, holderDetails, holderCounts, served>>
    /\ IF main.idx < Len(tokens)
       THEN /\ main' = [main EXCEPT !.pc = "fetching", !.idx = main.idx + 1]
            /\ fetcher' = [fetcher EXCEPT ![main.idx + 1] = FirstRequest]
            /\ UNCHANGED output
            /\ AddToQueue(Caller)
       ELSE /\ main' = [main EXCEPT !.pc = "returned"]
            /\ output' = QualifiedHolders(holderCounts, minTokensRequired)
            /\ UNCHANGED fetcher
            /\ LimiterUnchanged

\* ------------------------------ part_000: findCommonHolders(tokenAddresses)
Listed == 1..Len(tokens)

\* Promise.all rejects with the first rejection; later ones change nothing.
OnFetchErrorCommon(m, kind) ==
    IF m.pc = "fetching" THEN [m EXCEPT !.pc = "threw", !.error = kind] ELSE m

\* lines 79-92: every token's getTokenHolders is called and sends its first
\* request. With no token, holdersArrays[0] is undefined and line 95 throws.
CommonMain ==
    /\ prog = "common"
    /\ main.pc = "idle"
    /\ aggStep' = AStep("main", 0, "none")
    /\ UNCHANGED <<prog, tokens, minTokensRequired, holderDetails, holderCounts, output,
                   served>>
    /\ LimiterUnchanged
    /\ IF SeedUndefined(HoldersArrays(fetcher))
       THEN /\ main' = [main EXCEPT !.pc = "threw", !.error = "type"]
            /\ UNCHANGED fetcher
       ELSE /\ main' = [main EXCEPT !.pc = "fetching"]
            /\ fetcher' = [i \in TokenIdx |-> IF i \in Listed THEN FirstRequest
                                              ELSE fetcher[i]]

\* The response to token i's page request arrives, lines 42-46.
CommonResponse(i, kind) ==
    /\ prog = "common"
    /\ i \in Listed
    /\ fetcher[i].pc = "waiting"
    /\ aggStep' = AStep("response", i, kind)
    /\ UNCHANGED <<prog, tokens, minTokensRequired, holderDetails, holderCounts, output,
                   served>>
    /\ LimiterUnchanged
    /\ IF AfterResponseCommon(kind) = "json"
       THEN /\ fetcher' = [fetcher EXCEPT ![i] = [Heard(@, kind) EXCEPT !.pc = "json"]]
            /\ UNCHANGED main
       ELSE /\ fetcher' = [fetcher EXCEPT ![i] = Throw(Heard(@, kind))]
            /\ main' = OnFetchErrorCommon(main, kind)

\* response.json() of token i is read, lines 46-67 and 89-90; when the last
\* call returns, Promise.all fulfils and lines 95-105 follow.
CommonJson(i, body) ==
    /\ prog = "common"
    /\ i \in Listed
    /\ fetcher[i].pc = "json"
    /\ UNCHANGED <<prog, tokens, minTokensRequired, holderCounts>>
    /\ LimiterUnchanged
    /\ IF IsLastPage(body)
       THEN LET done == Return(Read(fetcher[i], body))
                f == [fetcher EXCEPT ![i] = done]
            IN /\ aggStep' = AStep("json", i, "last")
               /\ fetcher' = f
               /\ holderDetails' = SetKey(holderDetails, tokens[i], done.ret)
               /\ IF main.pc = "fetching" /\ \A j \in Listed : f[j].pc = "returned"
                  THEN /\ main' = [main EXCEPT !.pc = "returned"]
                       /\ output' = CommonHolders(f)
                  ELSE UNCHANGED <<main, output>>
               /\ UNCHANGED served
       ELSE /\ served < MaxServed
            /\ served' = served + 1
            /\ aggStep' = AStep("json", i, "page")
            /\ fetcher' = [fetcher EXCEPT ![i] =
                             Request(TakePage("common", Read(@, body), body, 0))]
            /\ UNCHANGED <<main, holderDetails, output>>

\* ------------------------------------------------------ the run as a whole
\* The limiter's timer callback, while the run goes on.
AggLimiterTimer(c) ==
    /\ LimiterTimer(c)
    /\ aggStep' = AStep("limiterTimer", 0, "none")
    /\ UNCHANGED <<prog, tokens, minTokensRequired, main, fetcher, holderDetails,
                   holderCounts, output, served>>

\* AggQuantum milliseconds pass for the limiter, the cooldown and the pause.
\* part_000 reads no clock and sets no timer.
AggTick ==
    /\ prog = "script"
    /\ Elapse(AggQuantum)
    /\ aggStep' = AStep("tick", 0, "none")
    /\ main' = [main EXCEPT !.timer = Max(@ - AggQuantum, 0)]
    /\ fetcher' = [i \in TokenIdx |-> [fetcher[i] EXCEPT !.timer = Max(@ - AggQuantum, 0)]]
    /\ UNCHANGED <<prog, tokens, minTokensRequired, holderDetails, holderCounts, output,
                   served>>

AggFresh ==
    /\ main = MainIdle
    /\ fetcher = [i \in TokenIdx |-> NoFetcher]
    /\ holderDetails = EmptyMap
    /\ holderCounts = <<>>
    /\ output = <<>>
    /\ served = 0
    /\ aggStep = AStep("init", 0, "none")

\* No run: the limiter alone.
NoRun ==
    /\ prog = "none"
    /\ tokens = <<>>
    /\ minTokensRequired = 0
    /\ AggFresh

\* A run of script.ts or of part_000 on some token list.
AggInit ==
    /\ LimiterInit
    /\ lastStep = Step("init", 0)
    /\ dispatchAges = <<>>
    /\ prog \in {"script", "common"}
    /\ tokens \in TokenLists
    /\ minTokensRequired \in (IF prog = "script" THEN 0..(MaxTokens + 1) ELSE {0})
    /\ AggFresh

AggNext ==
    \/ ScriptMain /\ UNCHANGED <<lastStep, dispatchAges>>
    \/ \E kind \in ResponseKinds : ScriptResponse(kind) /\ UNCHANGED <<lastStep, dispatchAges>>
    \/ ScriptCooldownExpire /\ UNCHANGED <<lastStep, dispatchAges>>
    \/ \E body \in Bodies : ScriptJson(body) /\ UNCHANGED <<lastStep, dispatchAges>>
    \/ ScriptPauseExpire /\ UNCHANGED <<lastStep, dispatchAges>>
    \/ CommonMain /\ UNCHANGED <<lastStep, dispatchAges>>
    \/ \E i \in TokenIdx, kind \in ResponseKinds :
          CommonResponse(i, kind) /\ UNCHANGED <<lastStep, dispatchAges>>
    \/ \E i \in TokenIdx, body \in Bodies : CommonJson(i, body) /\ UNCHANGED <<lastStep, dispatchAges>>
    \/ \E c \in ChainIds : AggLimiterTimer(c) /\ UNCHANGED <<lastStep, dispatchAges>>
    \/ AggTick /\ UNCHANGED <<lastStep, dispatchAges>>

AggSpec == AggInit /\ [][AggNext]_vars

\* One getTokenHolders call of script.ts, run to its end: a run on a list of
\* one token. Timers fire, the queued request is answered and the body is
\* read, each in the end.
FetchInit ==
    /\ LimiterInit
    /\ lastStep = Step("init", 0)
    /\ dispatchAges = <<>>
    /\ prog = "script"
    /\ tokens \in {list \in TokenLists : Len(list) = 1}
    /\ minTokensRequired = 1
    /\ AggFresh
NoLimiterHistory == UNCHANGED <<lastStep, dispatchAges>>
FetchNext ==
    \/ ScriptMain /\ NoLimiterHistory
    \/ \E kind \in ResponseKinds : ScriptResponse(kind) /\ NoLimiterHistory
    \/ ScriptCooldownExpire /\ NoLimiterHistory
    \/ \E body \in Bodies : ScriptJson(body) /\ NoLimiterHistory
    \/ ScriptPauseExpire /\ NoLimiterHistory
    \/ \E c \in ChainIds : AggLimiterTimer(c) /\ NoLimiterHistory
    \/ AggTick /\ NoLimiterHistory
FetchFairSpec ==
    /\ FetchInit
    /\ [][FetchNext]_vars
    /\ WF_vars(AggTick /\ NoLimiterHistory)
    /\ WF_vars((\E c \in ChainIds : AggLimiterTimer(c)) /\ NoLimiterHistory)
    /\ WF_vars((\E kind \in ResponseKinds : ScriptResponse(kind)) /\ NoLimiterHistory)
    /\ WF_vars(ScriptCooldownExpire /\ NoLimiterHistory)
    /\ WF_vars((\E body \in Bodies : ScriptJson(body)) /\ NoLimiterHistory)

\* The RateLimiter under arbitrary callers, with the dispatch history.
Init == LimiterInit /\ lastStep = Step("init", 0) /\ dispatchAges = <<>> /\ NoRun

\* The limiter's steps, each naming itself in lastStep.
Submit(t) == AddToQueue(t) /\ lastStep' = Step("addToQueue", t)
WakeUp(c) == CeilingWake(c) /\ lastStep' = Step("ceilingWake", 0)
TaskEnds(t, o) ==
    TaskSettle(t, o) /\ lastStep' = Step(IF o = "ok" THEN "taskOk" ELSE "taskFailed", t)
SpacingOver(c) == SpacingExpire(c) /\ lastStep' = Step("spacingExpire", 0)
TimePasses == Tick /\ lastStep' = Step("tick", 0)

WithHistory == RecordDispatches /\ UNCHANGED aggVars
NoHistory == UNCHANGED <<dispatchAges, aggVars>>

Next ==
    \/ \E t \in TaskIds : Submit(t) /\ WithHistory
    \/ \E c \in ChainIds : WakeUp(c) /\ WithHistory
    \/ \E t \in TaskIds, o \in {"ok", "err"} : TaskEnds(t, o) /\ WithHistory
    \/ \E c \in ChainIds : SpacingOver(c) /\ WithHistory
    \/ TimePasses /\ WithHistory

Spec == Init /\ [][Next]_vars

\* The same limiter without the dispatch history, under the scheduling the
\* event loop guarantees: time passes, a timer that has run out has its
\* callback run, and (the proviso of the liveness claims) a started task ends.
FairNext ==
    \/ \E t \in TaskIds : Submit(t) /\ NoHistory
    \/ \E c \in ChainIds : WakeUp(c) /\ NoHistory
    \/ \E t \in TaskIds, o \in {"ok", "err"} : TaskEnds(t, o) /\ NoHistory
    \/ \E c \in ChainIds : SpacingOver(c) /\ NoHistory
    \/ TimePasses /\ NoHistory

FairSpec ==
    /\ Init /\ [][FairNext]_vars
    /\ WF_vars(TimePasses /\ NoHistory)
    /\ WF_vars((\E c \in ChainIds : WakeUp(c) \/ SpacingOver(c)) /\ NoHistory)
    /\ WF_vars((\E t \in TaskIds, o \in {"ok", "err"} : TaskEnds(t, o)) /\ NoHistory)

\* ================================================================ claims

\* C1. Rate ceiling: at every moment, the dispatches of the one-second
\* window that ends now (both ends included) number at most
\* MAX_REQUESTS_PER_SECOND, whatever the arrivals and the task durations.
C1_RateCeiling == Len(dispatchAges) <= MAX_REQUESTS_PER_SECOND

\* The ceiling is reached: eight dispatches in the window, and the loop is
\* suspended in the wait of line 89 with a task still queued.
C1_Witness ==
    /\ Len(dispatchAges) = MAX_REQUESTS_PER_SECOND
    /\ queue # <<>>
    /\ \E c \in ChainIds : chain[c].pc = "ceilingWait"

\* C2. FIFO dispatch: a step that starts a task starts the oldest submitted
\* task that has not started yet, and the queue always holds exactly the
\* submitted tasks that have not started, in submission order (none is
\* skipped or dropped).
C2_Fifo ==
    /\ [](queue = submitSeq)
    /\ [][\A t \in TaskIds :
            Started(t) => (submitSeq = <<>> \/ Head(submitSeq) = t)]_vars

\* The dispatch loop has just started a task while a later submission waits.
C2_Witness ==
    /\ lastStep.op \in {"spacingExpire", "ceilingWake"}
    /\ \E t \in TaskIds : status[t] = "running"
    /\ queue # <<>>

\* C3. Failure isolation: a caller's promise is rejected exactly when its own
\* task failed and resolved exactly when its own task succeeded, and every
\* queued task, behind a failed task or not, is eventually dispatched and
\* settled.
C3_FailureIsolation ==
    /\ [](\A t \in TaskIds :
            /\ (result[t] = "err") <=> (promise[t] = "rejected")
            /\ (result[t] = "ok") <=> (promise[t] = "resolved"))
    /\ \A u \in TaskIds : (status[u] = "queued") ~> (status[u] = "settled")

\* A task has just failed with another task queued behind it.
C3_Witness ==
    /\ lastStep.op = "taskFailed"
    /\ promise[lastStep.task] = "rejected"
    /\ \E u \in TaskIds : status[u] = "queued" /\ promise[u] = "pending"

\* C4. No synchronous execution: in a step that submits a task (addToQueue),
\* the task does not start; it is only queued.
C4_NoSyncStart ==
    [][\A t \in TaskIds :
         (promise[t] # "pending" /\ promise'[t] = "pending") => status'[t] = "queued"]_vars


\* ---------------------------------------------------------------- C5
\* C5 (balance accumulation): the list a getTokenHolders call returns holds
\* each owner of the records it read exactly once, holds no other address,
\* and gives each owner the sum of the amounts of its records over all the
\* pages read.
C5_BalanceAccumulation ==
    \A i \in TokenIdx :
        fetcher[i].pc = "returned" =>
            LET ret == fetcher[i].ret IN
            /\ \A a, b \in 1..Len(ret) : ret[a].address = ret[b].address => a = b
            /\ AddressSet(ret) = fetcher[i].seen
            /\ \A a \in 1..Len(ret) : ret[a].amount = fetcher[i].fed[ret[a].address]
\* script.ts has returned a list after two non-empty pages of records that
\* all belong to one owner, with a sum above any single record.
C5_Witness ==
    /\ prog = "script"
    /\ \E i \in TokenIdx :
          /\ fetcher[i].pc = "returned"
          /\ fetcher[i].got = 2
          /\ Len(fetcher[i].ret) = 1
          /\ fetcher[i].ret[1].amount > MaxAmount

\* ---------------------------------------------------------------- C6
\* C6 (pagination termination): the k-th page request of a call comes after
\* k - 1 non-empty pages and asks for page k; the call returns when, and
\* only when, it has read a page whose result is absent or whose
\* token_accounts is empty; after that page it issues no request and does
\* not fail.
C6_PaginationTermination ==
    /\ [](\A i \in TokenIdx :
            /\ fetcher[i].pc = "waiting" =>
                   fetcher[i].reqPage = fetcher[i].got + 1
            /\ fetcher[i].ended <=> fetcher[i].pc = "returned")
    /\ [][\A i \in TokenIdx : fetcher[i].ended => fetcher'[i] = fetcher[i]]_vars
\* A call has returned after asking for pages 1, 2 and 3.
C6_Witness ==
    \E i \in TokenIdx :
        /\ fetcher[i].pc = "returned"
        /\ fetcher[i].reqPage = 3
        /\ fetcher[i].got = 2

\* ---------------------------------------------------------------- C7
\* C7 (quota retry): a response with status 429 leaves the page counter and
\* the holder map as they were and starts the cooldown; from then until the
\* next response the call is in the cooldown or waiting for the same page
\* again, and the caller has seen no error.
C7_QuotaRetry ==
    /\ [][\A i \in TokenIdx :
            (aggStep'.op = "response" /\ aggStep'.i = i /\ aggStep'.kind = "429") =>
                /\ fetcher'[i].pc = "cooldown"
                /\ fetcher'[i].page = fetcher[i].page
                /\ fetcher'[i].holders = fetcher[i].holders]_vars
    /\ [](\A i \in TokenIdx :
            fetcher[i].lastKind = "429" =>
                /\ fetcher[i].pc \in {"cooldown", "waiting"}
                /\ fetcher[i].reqPage = fetcher[i].page
                /\ main.pc # "threw")

\* ---------------------------------------------------------------- C8
\* C8 (fatal fetch error): once a page request of a call is answered with a
\* non-success status other than 429 the call has failed, has returned no
\* list, and nothing of it changes afterwards: no request, no return.
C8_FatalFetchError ==
    /\ [](\A i \in TokenIdx :
            fetcher[i].lastKind = "fatal" =>
                fetcher[i].pc = "failed" /\ fetcher[i].ret = <<>>)
    /\ [][\A i \in TokenIdx :
            fetcher[i].lastKind = "fatal" => fetcher'[i] = fetcher[i]]_vars
\* A call has failed on its third page, with two pages accumulated.
C8_Witness ==
    \E i \in TokenIdx :
        /\ fetcher[i].lastKind = "fatal"
        /\ fetcher[i].pc = "failed"
        /\ fetcher[i].got = 2
        /\ fetcher[i].holders # <<>>

\* ---------------------------------------------------------------- C9
\* C9 (all-or-nothing aggregation): while the fetch of a listed token has
\* failed fatally the aggregation has thrown and has no output, and once it
\* has thrown it never returns.
C9_AllOrNothing ==
    /\ [](\A i \in Listed :
            fetcher[i].lastKind = "fatal" =>
                main.pc = "threw" /\ output = <<>>)
    /\ [][main.pc = "threw" => (main'.pc = "threw" /\ output' = output)]_vars
\* The second token's fetch has failed after the first token's list, which
\* is not empty, was stored.
C9_Witness ==
    /\ Len(tokens) = 2
    /\ fetcher[1].pc = "returned"
    /\ fetcher[1].ret # <<>>
    /\ fetcher[2].lastKind = "fatal"
    /\ tokens[1] \in DOMAIN holderDetails
    /\ main.pc = "threw"

\* --------------------------------------------------------------- C10
\* C10 (configuration error): a call of findHoldersWithMinTokens with
\* minTokensRequired above the number of tokens has thrown the configuration
\* error, and no getTokenHolders call was made, no task was submitted to the
\* limiter and no page was requested.
C10_ConfigurationError ==
    (prog = "script" /\ minTokensRequired > Len(tokens) /\ main.pc # "idle") =>
        /\ main.pc = "threw"
        /\ main.error = "config"
        /\ \A i \in TokenIdx : fetcher[i] = NoFetcher
        /\ queue = <<>>
        /\ submitSeq = <<>>
        /\ \A t \in TaskIds : status[t] = "idle" /\ promise[t] = "none"
        /\ requestsInLastSecond = 0
\* The threshold is one above a list of two tokens and the call has thrown.
C10_Witness ==
    /\ prog = "script"
    /\ Len(tokens) = MaxTokens
    /\ minTokensRequired = MaxTokens + 1
    /\ main.pc = "threw"
    /\ main.error = "config"

\* --------------------------------------------------------------- C11
\* C11 (intersection policy): the list findCommonHolders returns holds
\* exactly the addresses that are in the holder list of every token, and the
\* same set of addresses comes out of lines 95-100 for every permutation of
\* the per-token holder sets.
Range(list) == {list[k] : k \in 1..Len(list)}
C11_Intersection ==
    (prog = "common" /\ main.pc = "returned") =>
        /\ Range(output) = {o \in Owners : \A i \in Listed : o \in AddressSet(fetcher[i].ret)}
        /\ \A perm \in Permutations(Listed) :
              Range(CommonHoldersOf([i \in Listed |-> HoldersArrays(fetcher)[perm[i]]]))
                  = Range(output)
\* findCommonHolders has returned a non-empty list for two tokens whose
\* holder sets differ, the first being the larger.
C11_Witness ==
    /\ prog = "common"
    /\ main.pc = "returned"
    /\ Len(tokens) = 2
    /\ output # <<>>
    /\ AddressSet(fetcher[2].ret) # AddressSet(fetcher[1].ret)
    /\ AddressSet(fetcher[2].ret) \subseteq AddressSet(fetcher[1].ret)

\* --------------------------------------------------------------- C12
\* C12 (threshold = number of tokens is the intersection): when
\* findHoldersWithMinTokens(tokens, tokens.length) has returned,
\* findCommonHolders on the same per-token holder lists returns too, and the
\* addresses of qualifiedHolders are the addresses it returns.
C12_ThresholdIsIntersection ==
    (prog = "script" /\ main.pc = "returned" /\ minTokensRequired = Len(tokens)) =>
        /\ ~SeedUndefined(HoldersArrays(fetcher))
        /\ AddressSet(output) = Range(CommonHoldersOf(HoldersArrays(fetcher)))

\* --------------------------------------------------------------- C13
\* C13 (threshold selection and ranking): the list findHoldersWithMinTokens
\* returns holds, once each, exactly the addresses that are in some token's
\* holder list and in the lists of at least minTokensRequired distinct
\* tokens, in the order of non-increasing totalValueUsd.
TokensHeldBy(o) == {tokens[i] : i \in {j \in Listed : o \in AddressSet(fetcher[j].ret)}}
C13_ThresholdRanking ==
    (prog = "script" /\ main.pc = "returned") =>
        /\ AddressSet(output) =
               {o \in Owners : /\ TokensHeldBy(o) # {}
                               /\ Cardinality(TokensHeldBy(o)) >= minTokensRequired}
        /\ \A a, b \in 1..Len(output) : output[a].address = output[b].address => a = b
        /\ \A a, b \in 1..Len(output) :
              a < b => output[a].totalValueUsd >= output[b].totalValueUsd

\* --------------------------------------------------------------- C14
\* C14 (cross-token summary): in every summary of holderCounts, tokenCount
\* is the number of tokens in its holdings map and totalValueUsd is the sum
\* of the values recorded there, one contribution per (address, token) pair.
RECURSIVE SumValues(_)
SumValues(holdings) ==
    IF DOMAIN holdings = {} THEN 0
    ELSE LET m == CHOOSE k \in DOMAIN holdings : TRUE
         IN holdings[m].valueUsd + SumValues([k \in DOMAIN holdings \ {m} |-> holdings[k]])
C14_SummaryInvariant ==
    \A k \in 1..Len(holderCounts) :
        /\ holderCounts[k].tokenCount = Cardinality(DOMAIN holderCounts[k].holdings)
        /\ holderCounts[k].totalValueUsd = SumValues(holderCounts[k].holdings)

\* --------------------------------------------------------------- C15
\* C15 (sequential token processing): under both programs a getTokenHolders
\* call for a later place of the token list has started only when the call
\* for every earlier place has finished.
C15_Sequential ==
    \A i, j \in TokenIdx :
        (i < j /\ fetcher[j].pc # "notStarted") => fetcher[i].pc \in {"returned", "failed"}

\* --------------------------------------------------------------- C16
\* C16 (abort on fatal error): once a page request of the run was answered
\* with a fatal status, no step issues a page request for any token.
C16_AbortOnFatal ==
    [][(\E i \in TokenIdx : fetcher[i].lastKind = "fatal") =>
           \A j \in TokenIdx :
               ~(/\ fetcher'[j].pc = "waiting"
                 /\ fetcher[j].pc # "waiting" \/ fetcher'[j].reqPage # fetcher[j].reqPage)]_vars

\* --------------------------------------------------------------- C17
\* C17 (requests go through the limiter): while a page request of a
\* getTokenHolders call is outstanding, it is a task of the RateLimiter,
\* queued or dispatched.
C17_ThroughLimiter ==
    \A i \in TokenIdx :
        fetcher[i].pc = "waiting" => status[Caller] \in {"queued", "running"}

\* --------------------------------------------------------------- C18
\* C18 (unbounded quota retry, termination): a getTokenHolders call whose
\* latest answer is a 429 has neither returned nor failed and, after the
\* cooldown, asks for the same page again, however often that has happened;
\* and unless the answers stay 429 for ever, a call that waits for a page
\* returns or fails in the end (the pages served are finitely many, so some
\* page is empty or fatal).
C18_RetryAndTermination ==
    /\ [](\A i \in TokenIdx :
            fetcher[i].lastKind = "429" =>
                /\ fetcher[i].pc \in {"cooldown", "waiting"}
                /\ fetcher[i].reqPage = fetcher[i].page)
    /\ \A i \in TokenIdx :
          (fetcher[i].pc = "cooldown")
              ~> (fetcher[i].pc = "waiting" /\ fetcher[i].reqPage = fetcher[i].page)
    /\ \A i \in TokenIdx :
          (~<>[](fetcher[i].lastKind = "429"))
              => ((fetcher[i].pc = "waiting") ~> (fetcher[i].pc \in {"returned", "failed"}))
\* The second page of a token was answered 429 and has been asked for again.
C18_Witness ==
    \E i \in TokenIdx :
        /\ fetcher[i].lastKind = "429"
        /\ fetcher[i].pc = "waiting"
        /\ fetcher[i].got = 1
        /\ fetcher[i].reqPage = 2

\* --------------------------------------------------------------- C19
\* C19 (single dispatch loop): at most one invocation chain of processQueue
\* is active and at most one task is executing, and no step starts a task
\* while another task is executing, wherever addToQueue falls among the
\* loop's suspension points.
ActiveChains == {c \in ChainIds : chain[c].pc # "done"}
Executing == {t \in TaskIds : status[t] = "running"}
C19_SingleLoop ==
    /\ [](Cardinality(ActiveChains) <= 1 /\ Cardinality(Executing) <= 1)
    /\ [][\A t \in TaskIds : Started(t) => Executing = {}]_vars
\* addToQueue has just been called while the loop is suspended in the
\* ceiling wait with a task already queued.
C19_Witness ==
    /\ lastStep.op = "addToQueue"
    /\ Len(queue) >= 2
    /\ \E c \in ChainIds : chain[c].pc = "ceilingWait"

\* --------------------------------------------------------------- C20
\* C20 (no lost wake-up): the queue is never non-empty with processing
\* false, processing is never true with no active chain, and, tasks ending
\* and timers firing in the end, every queued task is dispatched and every
\* pending promise is settled.
C20_NoLostWakeup ==
    /\ [](queue # <<>> => processing)
    /\ [](processing => ActiveChains # {})
    /\ \A t \in TaskIds : (status[t] = "queued") ~> (status[t] = "running")
    /\ \A t \in TaskIds : (promise[t] = "pending") ~> (promise[t] \in {"resolved", "rejected"})
\* The loop had come to rest after a task and addToQueue has just woken it:
\* the new task was started inside the call.
C20_Witness ==
    /\ lastStep.op = "addToQueue"
    /\ status[lastStep.task] = "running"
    /\ \E u \in TaskIds : status[u] = "settled"

====
